---- MODULE Spec2Model ----
(***************************************************************************)
(* Search Aggregation Engine of app/services/search_engine.py:             *)
(* SearchSession, SearchEngine.fetch_more_results, search_with_offset and  *)
(* get_more_results, and the Deficit-Driven Collector of                   *)
(* app/services/deficit_collector.py (collect_until_fulfilled).  Every     *)
(* coroutine is followed statement by statement; the awaits on the query   *)
(* planner (prompt_to_queries, diversify_prompt), on the paginated source  *)
(* (call_google_search_api), on the job record and on the extractor are    *)
(* the points where the environment answers.                               *)
(*                                                                         *)
(* Specifications:                                                         *)
(*   Spec         one caller, its calls on the session one after the other *)
(*   SpecScen     the same for a plan of three queries with short pages,   *)
(*                requests may be cancelled at their awaits                *)
(*   SpecMore     one caller repeating get_more_results for ever (fair)    *)
(*   SpecConc     two callers whose calls overlap at the awaits            *)
(*   SpecCollect  a collection job: the first page, then the collector     *)
(*   SpecCollectFair  the same, every external call returning              *)
(*                                                                         *)
(* Not modelled: timestamps (created_at, last_accessed), total_api_calls,  *)
(* logging, the text of titles/snippets, failures of the LLM planner, of   *)
(* the job database and of the extractor.                                  *)
(***************************************************************************)
EXTENDS Integers, Sequences, FiniteSets, TLC

VARIABLES
    sessions,   \* SearchEngine.sessions: session id -> SearchSession
    calls,      \* per caller: the frame of its running coroutine
    ret,        \* per caller: how its last public call ended
    source,     \* per caller: the last answer of the source in its call
    collector,  \* the locals of DeficitCollector.collect_until_fulfilled
    generatedCount  \* leadgenerationjob.generatedCount of the job

vars == <<sessions, calls, ret, source, collector, generatedCount>>

\* the state of the collection job, which no statement of the engine touches
jobvars == <<collector, generatedCount>>

(* ---------------- program constants ---------------- *)

\* fetch_more_results: "if current_position >= 100:  # CSE hard limit"
CSE_LIMIT == 100

\* fetch_more_results: batch_size = min(10, needed)
MAX_BATCH == 10

\* search_with_offset / get_more_results: target = required_total + 10
HEADROOM == 10

\* collect_until_fulfilled: overfetch_factor: float = 2.0
OVERFETCH_FACTOR == 2

\* collect_until_fulfilled: max_chunk_size: int = 10
MAX_CHUNK_SIZE == 10

\* collect_until_fulfilled: fetch_n = min(max_chunk_size * 2, max(10, ...))
MIN_FETCH == 10

(* ---------------- bounds of the model ---------------- *)

\* search_with_offset is called with offset 0 or MaxOffset
MaxOffset == 1

\* the larger of the two page lengths a caller asks for
MaxCount == 10

\* positions a query's upstream index holds (beyond the cap, so that the
\* source itself never stops a cursor below it)
CorpusLen == 120

\* positions the index holds for each of the queries s1, s2, s3
ScenCorpusLen == 6

\* overlapping calls are started while the session holds fewer items
MaxConcLen == 6

\* leads the extraction may get accepted during one collection
MaxAccepted == 2

Offsets == {0, MaxOffset}

Counts == {1, MaxCount}

Callers == {"c1", "c2"}

Users == {"default_user"}

Prompts == {"p1"}

\* session ids a continuation request may carry: the real one and one that
\* was never created
UnknownSid == <<"nobody", "none", "day1">>

(* ---------------- helpers ---------------- *)

Min(a, b) == IF a < b THEN a ELSE b

Max(a, b) == IF a > b THEN a ELSE b

Range(s) == {s[i] : i \in 1..Len(s)}

IsPrefix(s, t) == Len(s) <= Len(t) /\ SubSeq(t, 1, Len(s)) = s

Links(s) == {s[i].link : i \in 1..Len(s)}

NoDuplicateLinks(s) == \A i, j \in 1..Len(s) : i # j => s[i].link # s[j].link

\* the list kept as it is, whatever links it repeats
FilterNotIn_none(s, existing) == s

\* [res for res in s if res["link"] not in existing]
RECURSIVE FilterNotIn(_, _)
FilterNotIn(s, existing) ==
    IF s = <<>> THEN <<>>
    ELSE IF Head(s).link \in existing
         THEN FilterNotIn(Tail(s), existing)
         ELSE <<Head(s)>> \o FilterNotIn(Tail(s), existing)

(* ---------------- the external collaborators ---------------- *)

\* what prompt_to_queries may answer
PlanChoices == {<< >>, <<"q0">>, <<"q1">>, <<"q1", "q2">>}

\* what diversify_prompt may answer
DiversifyChoices == {<< >>, <<"d1">>}

\* the three queries of a plan whose index holds a few hits each
ScenQueries == {"s1", "s2", "s3"}

ScenPlan == <<"s1", "s2", "s3">>

\* length of the pages the source answers with for each of them
ScenPage(q) ==
    CASE q = "s1" -> 4
      [] q = "s2" -> 3
      [] OTHER    -> 5

\* number of upstream positions the index holds for a query: q0 has no hit,
\* q2 has three
CorpusSize(q) ==
    CASE q = "q0" -> 0
      [] q = "q2" -> 3
      [] q \in ScenQueries -> ScenCorpusLen
      [] OTHER    -> CorpusLen

\* link of the item the index ranks at 1-based position p for query q.
\*  q1: one link not seen before in every ten positions, the rest repeat
\*  q2: positions 1 and 2 carry the same link (a page repeating a link inside
\*      itself), the rest are links q1 returns too
\*  d1: all links distinct
\*  s1, s2, s3: five links of their own first, then a repeat of the first,
\*      then a link the next query returns too
Corpus(q, p) ==
    CASE q = "q1" -> IF p % 10 = 1 THEN 100 + (p \div 10) ELSE p % 10
      [] q = "q2" -> IF p <= 2 THEN 200 ELSE p % 10
      [] q \in ScenQueries ->
            LET k == CASE q = "s1" -> 1 [] q = "s2" -> 2 [] OTHER -> 3
            IN CASE p <= 5 -> 1000 * k + p
                 [] p = 6 -> 1000 * k + 1
                 [] OTHER -> 1000 * ((k % 3) + 1) + 2
      [] OTHER    -> 300 + p

\* a short page: half of the largest page
ShortPage == MAX_BATCH \div 2

\* page lengths the source may answer with when asked for num items from
\* start_index on: nothing, a short page, or all it has up to num
PageSizes(q, start_index, num) ==
    LET avail == Max(0, CorpusSize(q) - start_index + 1)
        full  == Min(num, avail)
    IN IF q \in ScenQueries
       THEN {0, Min(ScenPage(q), full)}
       ELSE {0, Min(ShortPage, full), full}

(* ---------------- SearchSession ---------------- *)

\* SearchSession.__init__
SearchSession(prompt, queries) ==
    [original_prompt      |-> prompt,
     queries              |-> queries,
     results              |-> << >>,
     query_positions      |-> [q \in Range(queries) |-> 0],
     is_exhausted         |-> FALSE,
     last_returned_offset |-> 0]

\* add_results assigning the new items instead of extending the list
add_results_assign(s, new_results, query, fetched_count) ==
    [s EXCEPT !.results = new_results,
              !.query_positions[query] = @ + fetched_count]

\* SearchSession.add_results
add_results(s, new_results, query, fetched_count) ==
    [s EXCEPT !.results = @ \o new_results,
              !.query_positions[query] = @ + fetched_count]

\* get_results leaving out the last item of the slice
get_results_short(s, offset, limit) ==
    SubSeq(s.results, offset + 1, Min(offset + limit, Len(s.results)) - 1)

\* SearchSession.get_results: self.results[offset: offset + limit]
get_results(s, offset, limit) ==
    SubSeq(s.results, offset + 1, Min(offset + limit, Len(s.results)))

\* SearchSession.needs_more_results
needs_more_results(s, required_count) ==
    Len(s.results) < required_count /\ ~s.is_exhausted

\* SearchEngine.generate_session_id: md5 of "user_prompt_date", taken as
\* injective; the calendar day does not change within a run
generate_session_id(user_id, prompt) == <<user_id, prompt, "day1">>

\* call_google_search_api, status 200: the normalized items of a page
normalized_results(q, start_index, n) ==
    [i \in 1..n |-> [link |-> Corpus(q, start_index + i - 1),
                     rank |-> start_index + i - 1]]

(* ---------------- call frames ---------------- *)

IdleFrame ==
    [pc |-> "idle", op |-> "none", sid |-> UnknownSid, offset |-> 0, num |-> 0,
     has_locs |-> FALSE, stage |-> "none", target |-> 0, current_count |-> 0,
     needed |-> 0, qlist |-> << >>, qi |-> 0, start_index |-> 0,
     batch_size |-> 0, requests |-> 0, pass_ok |-> 0, pass_new |-> 0,
     fallback |-> FALSE, passes |-> 0, pass_requests |-> 0,
     overlapped |-> FALSE, fetched |-> 0]

NoRet ==
    [kind |-> "none", op |-> "none", sid |-> UnknownSid, offset |-> 0, num |-> 0,
     results |-> << >>, results_returned |-> 0, total_results_available |-> 0,
     has_more |-> FALSE, next_offset |-> -1,
     requests |-> 0, pass_ok |-> 0, pass_new |-> 0, fallback |-> FALSE,
     passes |-> 0, new_session |-> FALSE, overlapped |-> FALSE]

\* an exception leaves the coroutine
Raise(c, kind) ==
    /\ ret' = [ret EXCEPT ![c] =
                 [NoRet EXCEPT !.kind = kind, !.op = calls[c].op,
                               !.sid = calls[c].sid, !.offset = calls[c].offset,
                               !.num = calls[c].num,
                               !.requests = calls[c].requests,
                               !.pass_ok = calls[c].pass_ok,
                               !.pass_new = calls[c].pass_new,
                               !.fallback = calls[c].fallback,
                               !.passes = calls[c].passes,
                               !.new_session = calls[c].has_locs,
                               !.overlapped = calls[c].overlapped]]
    /\ calls' = [calls EXCEPT ![c] = IdleFrame]

\* frame entering fetch_more_results(session, target_count) from the call
\* site named by stage
EnterFetch(f, stage, target_count) ==
    [f EXCEPT !.pc = "fm_enter", !.stage = stage, !.target = target_count]

\* pc of the statement after the call site of fetch_more_results
AfterFetch(stage) ==
    CASE stage = "create" -> "swo_fallback"
      [] stage = "retry"  -> "swo_main"
      [] OTHER            -> "slice"

\* fetch_more_results returns: its locals are gone
LeaveFetch(f) ==
    [f EXCEPT !.pc = AfterFetch(f.stage), !.stage = "none", !.target = 0,
              !.current_count = 0, !.needed = 0, !.qlist = << >>, !.qi = 0,
              !.start_index = 0, !.batch_size = 0, !.pass_requests = 0,
              !.fetched = 0]

\* the frames after caller c starts a coroutine with frame f: f and every
\* coroutine already running on the same session are marked as overlapping
Begin(c, f) ==
    [d \in Callers |->
        IF d = c
        THEN [f EXCEPT !.overlapped =
                \E e \in Callers \ {c} :
                   calls[e].pc # "idle" /\ calls[e].sid = f.sid]
        ELSE IF calls[d].pc # "idle" /\ calls[d].sid = f.sid
             THEN [calls[d] EXCEPT !.overlapped = TRUE]
             ELSE calls[d]]

\* collect_until_fulfilled not called yet
IdleCollector ==
    [pc |-> "idle", status |-> "none", session_id |-> UnknownSid,
     num_results |-> 0, max_total_pull |-> 0, results |-> << >>,
     result_index |-> 0, total_consumed |-> 0, deficit |-> 0, fetch_n |-> 0,
     urls |-> << >>, pre_count |-> 0, submitted |-> << >>, pulls |-> 0]

Init ==
    /\ sessions = << >>
    /\ calls = [c \in Callers |-> IdleFrame]
    /\ ret = [c \in Callers |-> NoRet]
    /\ source = [c \in Callers |-> "none"]
    /\ collector = IdleCollector
    /\ generatedCount = 0


(* ---------------- search_with_offset ---------------- *)

\* search_with_offset planning again whether or not the session exists
search_with_offset_replans(c, user_id, prompt, offset, num_results) ==
    /\ calls[c].pc = "idle"
    /\ LET sid == generate_session_id(user_id, prompt)
           f   == [IdleFrame EXCEPT !.op = "search_with_offset", !.sid = sid,
                                    !.offset = offset, !.num = num_results]
       IN calls' = Begin(c, [f EXCEPT !.pc = "swo_plan"])
    /\ source' = [source EXCEPT ![c] = "none"]
    /\ UNCHANGED <<sessions, ret>>
    /\ UNCHANGED jobvars

\* search_with_offset, entry: session_id = generate_session_id(...); a new
\* session awaits the planner, a known one goes on to the fallback test with
\* inferred_locations unbound
search_with_offset(c, user_id, prompt, offset, num_results) ==
    /\ calls[c].pc = "idle"
    /\ LET sid == generate_session_id(user_id, prompt)
           f   == [IdleFrame EXCEPT !.op = "search_with_offset", !.sid = sid,
                                    !.offset = offset, !.num = num_results]
       IN calls' = Begin(c, IF sid \notin DOMAIN sessions
                               THEN [f EXCEPT !.pc = "swo_plan"]
                               ELSE [f EXCEPT !.pc = "swo_fallback"])
    /\ source' = [source EXCEPT ![c] = "none"]
    /\ UNCHANGED <<sessions, ret>>
    /\ UNCHANGED jobvars

\* prompt_to_queries returns: the session is created and the first growth
\* is started with target offset + num_results + 10
PlannerReturns(c, queries) ==
    /\ calls[c].pc = "swo_plan"
    /\ LET f == calls[c]
       IN /\ sessions' = [x \in DOMAIN sessions \cup {f.sid} |->
                            IF x = f.sid THEN SearchSession(f.sid[2], queries)
                                         ELSE sessions[x]]
          /\ calls' = [calls EXCEPT ![c] =
                         EnterFetch([f EXCEPT !.has_locs = TRUE], "create",
                                    f.offset + f.num + HEADROOM)]
    /\ UNCHANGED <<ret, source>>
    /\ UNCHANGED jobvars

\* "if len(self.sessions[session_id].results) == 0": the fallback reads
\* inferred_locations, which is bound only in the branch that created the
\* session
FallbackTest(c) ==
    /\ calls[c].pc = "swo_fallback"
    /\ LET f == calls[c]
       IN IF Len(sessions[f.sid].results) = 0
          THEN IF f.has_locs
               THEN /\ calls' = [calls EXCEPT ![c].pc = "swo_diversify",
                                              ![c].fallback = TRUE]
                    /\ UNCHANGED <<sessions, ret>>
               ELSE /\ Raise(c, "UnboundLocalError")
                    /\ UNCHANGED sessions
          ELSE /\ calls' = [calls EXCEPT ![c].pc = "swo_main"]
               /\ UNCHANGED <<sessions, ret>>
    /\ UNCHANGED source
    /\ UNCHANGED jobvars

\* diversify_prompt returns: session.queries is overwritten (query_positions
\* is not touched) and growth is retried
DiversifyReturns(c, diversified) ==
    /\ calls[c].pc = "swo_diversify"
    /\ LET f == calls[c]
       IN /\ sessions' = [sessions EXCEPT ![f.sid].queries = diversified]
          /\ calls' = [calls EXCEPT ![c] =
                         EnterFetch(f, "retry", f.offset + f.num + HEADROOM)]
    /\ UNCHANGED <<ret, source>>
    /\ UNCHANGED jobvars

\* required_total = offset + num_results; grow when needs_more_results
GrowTest(c) ==
    /\ calls[c].pc = "swo_main"
    /\ LET f == calls[c]
           required_total == f.offset + f.num
       IN calls' = [calls EXCEPT ![c] =
                      IF needs_more_results(sessions[f.sid], required_total)
                      THEN EnterFetch(f, "grow", required_total + HEADROOM)
                      ELSE [f EXCEPT !.pc = "slice"]]
    /\ UNCHANGED <<sessions, ret, source>>
    /\ UNCHANGED jobvars

(* ---------------- get_more_results ---------------- *)

\* get_more_results answering an unknown session with an empty page
get_more_results_lenient(c, sid, num_results) ==
    /\ calls[c].pc = "idle"
    /\ IF sid \notin DOMAIN sessions
       THEN /\ ret' = [ret EXCEPT ![c] =
                         [NoRet EXCEPT !.kind = "page",
                                       !.op = "get_more_results",
                                       !.sid = sid, !.num = num_results]]
            /\ UNCHANGED <<sessions, calls>>
       ELSE LET session == sessions[sid]
                current_offset == session.last_returned_offset
                required_total == current_offset + num_results
                f == [IdleFrame EXCEPT !.op = "get_more_results", !.sid = sid,
                                       !.offset = current_offset,
                                       !.num = num_results]
            IN /\ calls' = Begin(c,
                              IF needs_more_results(session, required_total)
                              THEN EnterFetch(f, "grow", required_total + HEADROOM)
                              ELSE [f EXCEPT !.pc = "slice"])
               /\ UNCHANGED <<sessions, ret>>
    /\ source' = [source EXCEPT ![c] = "none"]
    /\ UNCHANGED jobvars

\* get_more_results serving from the start of results instead of from
\* last_returned_offset
get_more_results_restart(c, sid, num_results) ==
    /\ calls[c].pc = "idle"
    /\ IF sid \notin DOMAIN sessions
       THEN /\ ret' = [ret EXCEPT ![c] =
                         [NoRet EXCEPT !.kind = "ValueError",
                                       !.op = "get_more_results",
                                       !.sid = sid, !.num = num_results]]
            /\ UNCHANGED <<sessions, calls>>
       ELSE LET session == sessions[sid]
                current_offset == 0
                required_total == current_offset + num_results
                f == [IdleFrame EXCEPT !.op = "get_more_results", !.sid = sid,
                                       !.offset = current_offset,
                                       !.num = num_results]
            IN /\ calls' = Begin(c,
                              IF needs_more_results(session, required_total)
                              THEN EnterFetch(f, "grow", required_total + HEADROOM)
                              ELSE [f EXCEPT !.pc = "slice"])
               /\ UNCHANGED <<sessions, ret>>
    /\ source' = [source EXCEPT ![c] = "none"]
    /\ UNCHANGED jobvars

\* get_more_results up to the growth: unknown session raises ValueError;
\* otherwise current_offset = last_returned_offset is read into a local
get_more_results(c, sid, num_results) ==
    /\ calls[c].pc = "idle"
    /\ IF sid \notin DOMAIN sessions
       THEN /\ ret' = [ret EXCEPT ![c] =
                         [NoRet EXCEPT !.kind = "ValueError",
                                       !.op = "get_more_results",
                                       !.sid = sid, !.num = num_results]]
            /\ UNCHANGED <<sessions, calls>>
       ELSE LET session == sessions[sid]
                current_offset == session.last_returned_offset
                required_total == current_offset + num_results
                f == [IdleFrame EXCEPT !.op = "get_more_results", !.sid = sid,
                                       !.offset = current_offset,
                                       !.num = num_results]
            IN /\ calls' = Begin(c,
                              IF needs_more_results(session, required_total)
                              THEN EnterFetch(f, "grow", required_total + HEADROOM)
                              ELSE [f EXCEPT !.pc = "slice"])
               /\ UNCHANGED <<sessions, ret>>
    /\ source' = [source EXCEPT ![c] = "none"]
    /\ UNCHANGED jobvars

(* ---------------- fetch_more_results ---------------- *)

\* fetch_more_results entered without the is_exhausted test
FetchEnter_ignores_exhausted(c) ==
    /\ calls[c].pc = "fm_enter"
    /\ LET f == calls[c]
           session == sessions[f.sid]
           current_count == Len(session.results)
       IN calls' = [calls EXCEPT ![c] =
                      IF current_count >= f.target
                      THEN LeaveFetch(f)
                      ELSE [f EXCEPT !.pc = "fm_loop",
                                     !.current_count = current_count,
                                     !.needed = f.target - current_count,
                                     !.qlist = session.queries,
                                     !.qi = 1, !.pass_ok = 0,
                                     !.pass_new = 0,
                                     !.passes = f.passes + 1,
                                     !.pass_requests = 0]]
    /\ UNCHANGED <<sessions, ret, source>>
    /\ UNCHANGED jobvars

\* "if current_count >= target_count or session.is_exhausted: return"
FetchEnter(c) ==
    /\ calls[c].pc = "fm_enter"
    /\ LET f == calls[c]
           session == sessions[f.sid]
           current_count == Len(session.results)
       IN calls' = [calls EXCEPT ![c] =
                      IF current_count >= f.target \/ session.is_exhausted
                      THEN LeaveFetch(f)
                      ELSE [f EXCEPT !.pc = "fm_loop",
                                     !.current_count = current_count,
                                     !.needed = f.target - current_count,
                                     !.qlist = session.queries,
                                     !.qi = 1, !.pass_ok = 0,
                                     !.pass_new = 0,
                                     !.passes = f.passes + 1,
                                     !.pass_requests = 0]]
    /\ UNCHANGED <<sessions, ret, source>>
    /\ UNCHANGED jobvars

\* head of "for query in session.queries" up to the await of the source
FetchLoop(c) ==
    /\ calls[c].pc = "fm_loop"
    /\ LET f == calls[c]
           session == sessions[f.sid]
       IN IF f.qi > Len(f.qlist) \/ f.needed <= 0
          THEN /\ calls' = [calls EXCEPT ![c].pc = "fm_exit"]
               /\ UNCHANGED <<sessions, ret>>
          ELSE LET query == f.qlist[f.qi]
               IN IF query \notin DOMAIN session.query_positions
                  THEN /\ Raise(c, "KeyError")
                       /\ UNCHANGED sessions
                  ELSE LET current_position == session.query_positions[query]
                       IN /\ calls' = [calls EXCEPT ![c] =
                                IF current_position >= CSE_LIMIT
                                THEN [f EXCEPT !.qi = f.qi + 1, !.fetched = 0]
                                ELSE [f EXCEPT !.pc = "fm_await",
                                       !.fetched = 0,
                                       !.batch_size = Min(MAX_BATCH, f.needed),
                                       !.start_index = current_position + 1,
                                       !.requests = f.requests + 1,
                                       !.pass_requests = f.pass_requests + 1]]
                          /\ UNCHANGED <<sessions, ret>>
    /\ UNCHANGED source
    /\ UNCHANGED jobvars

\* an empty page answered by asking the same query again
SourceReturns_asks_again(c, n) ==
    /\ calls[c].pc = "fm_await"
    /\ LET f == calls[c]
           session == sessions[f.sid]
           query == f.qlist[f.qi]
           new_results == normalized_results(query, f.start_index, n)
           existing_links == Links(session.results)
           filtered_results == FilterNotIn(new_results, existing_links)
       IN /\ n \in PageSizes(query, f.start_index, f.batch_size)
          /\ IF new_results = << >>
             THEN /\ calls' = [calls EXCEPT ![c].pc = "fm_loop",
                                            ![c].fetched = 0,
                                            ![c].pass_ok = f.pass_ok + 1]
                  /\ UNCHANGED sessions
             ELSE /\ sessions' = [sessions EXCEPT ![f.sid] =
                        add_results(session, filtered_results, query,
                                    Len(new_results))]
                  /\ calls' = [calls EXCEPT ![c].pc = "fm_loop",
                                   ![c].qi = f.qi + 1,
                                   ![c].fetched = Len(new_results),
                                   ![c].pass_ok = f.pass_ok + 1,
                                   ![c].pass_new = f.pass_new + Len(filtered_results),
                                   ![c].needed = f.needed - Len(filtered_results)]
          /\ source' = [source EXCEPT ![c] =
                          IF new_results = << >> THEN "empty" ELSE "items"]
    /\ UNCHANGED ret
    /\ UNCHANGED jobvars

\* the cursor advanced by the number of items merged, not by the number
\* the source returned
SourceReturns_counts_unique(c, n) ==
    /\ calls[c].pc = "fm_await"
    /\ LET f == calls[c]
           session == sessions[f.sid]
           query == f.qlist[f.qi]
           new_results == normalized_results(query, f.start_index, n)
           existing_links == Links(session.results)
           filtered_results == FilterNotIn(new_results, existing_links)
       IN /\ n \in PageSizes(query, f.start_index, f.batch_size)
          /\ IF new_results = << >>
             THEN /\ calls' = [calls EXCEPT ![c].pc = "fm_loop",
                                            ![c].qi = f.qi + 1,
                                            ![c].fetched = 0,
                                            ![c].pass_ok = f.pass_ok + 1]
                  /\ UNCHANGED sessions
             ELSE /\ sessions' = [sessions EXCEPT ![f.sid] =
                        add_results(session, filtered_results, query,
                                    Len(filtered_results))]
                  /\ calls' = [calls EXCEPT ![c].pc = "fm_loop",
                                   ![c].qi = f.qi + 1,
                                   ![c].fetched = Len(new_results),
                                   ![c].pass_ok = f.pass_ok + 1,
                                   ![c].pass_new = f.pass_new + Len(filtered_results),
                                   ![c].needed = f.needed - Len(filtered_results)]
          /\ source' = [source EXCEPT ![c] =
                          IF new_results = << >> THEN "empty" ELSE "items"]
    /\ UNCHANGED ret
    /\ UNCHANGED jobvars

\* the source answers status 200 with n items: empty page -> continue;
\* otherwise filter against the links already in results, add_results with
\* the raw length, needed -= len(filtered_results)
SourceReturns(c, n) ==
    /\ calls[c].pc = "fm_await"
    /\ LET f == calls[c]
           session == sessions[f.sid]
           query == f.qlist[f.qi]
           new_results == normalized_results(query, f.start_index, n)
           existing_links == Links(session.results)
           filtered_results == FilterNotIn(new_results, existing_links)
       IN /\ n \in PageSizes(query, f.start_index, f.batch_size)
          /\ IF new_results = << >>
             THEN /\ calls' = [calls EXCEPT ![c].pc = "fm_loop",
                                            ![c].qi = f.qi + 1,
                                            ![c].fetched = 0,
                                            ![c].pass_ok = f.pass_ok + 1]
                  /\ UNCHANGED sessions
             ELSE /\ sessions' = [sessions EXCEPT ![f.sid] =
                        add_results(session, filtered_results, query,
                                    Len(new_results))]
                  /\ calls' = [calls EXCEPT ![c].pc = "fm_loop",
                                   ![c].qi = f.qi + 1,
                                   ![c].fetched = Len(new_results),
                                   ![c].pass_ok = f.pass_ok + 1,
                                   ![c].pass_new = f.pass_new + Len(filtered_results),
                                   ![c].needed = f.needed - Len(filtered_results)]
          /\ source' = [source EXCEPT ![c] =
                          IF new_results = << >> THEN "empty" ELSE "items"]
    /\ UNCHANGED ret
    /\ UNCHANGED jobvars

\* a source failure swallowed as if the page were empty
SourceFails_swallowed(c) ==
    /\ calls[c].pc = "fm_await"
    /\ calls' = [calls EXCEPT ![c].pc = "fm_loop", ![c].qi = calls[c].qi + 1]
    /\ source' = [source EXCEPT ![c] = "failure"]
    /\ UNCHANGED <<sessions, ret>>
    /\ UNCHANGED jobvars

\* a source failure that undoes the growth pass: the items the pass merged
\* are taken out of results again
SourceFails_rolls_back(c) ==
    /\ calls[c].pc = "fm_await"
    /\ Raise(c, "GoogleSearchError")
    /\ source' = [source EXCEPT ![c] = "failure"]
    /\ sessions' = [sessions EXCEPT ![calls[c].sid].results =
                       SubSeq(@, 1, calls[c].current_count)]
    /\ UNCHANGED jobvars

\* the source call times out, fails in transport or answers non-200:
\* call_google_search_api raises GoogleSearchError, which nothing in
\* fetch_more_results or in the public operations catches
SourceFails(c) ==
    /\ calls[c].pc = "fm_await"
    /\ Raise(c, "GoogleSearchError")
    /\ source' = [source EXCEPT ![c] = "failure"]
    /\ UNCHANGED sessions
    /\ UNCHANGED jobvars

\* the task running the request is cancelled while it awaits the planner
\* or the source: CancelledError is raised at the await and nothing on the
\* way up catches it
Cancelled(c) ==
    /\ calls[c].pc \in {"swo_plan", "swo_diversify", "fm_await"}
    /\ Raise(c, "CancelledError")
    /\ UNCHANGED <<sessions, source>>
    /\ UNCHANGED jobvars

\* the end of a pass that leaves is_exhausted as it is
FetchExit_never_exhausts(c) ==
    /\ calls[c].pc = "fm_exit"
    /\ calls' = [calls EXCEPT ![c] = LeaveFetch(calls[c])]
    /\ UNCHANGED <<sessions, ret, source>>
    /\ UNCHANGED jobvars

\* "if len(session.results) == current_count: session.is_exhausted = True"
FetchExit(c) ==
    /\ calls[c].pc = "fm_exit"
    /\ LET f == calls[c]
           session == sessions[f.sid]
       IN /\ sessions' = [sessions EXCEPT ![f.sid].is_exhausted =
                            IF Len(session.results) = f.current_count
                            THEN TRUE ELSE @]
          /\ calls' = [calls EXCEPT ![c] = LeaveFetch(f)]
    /\ UNCHANGED <<ret, source>>
    /\ UNCHANGED jobvars

(* ---------------- the page ---------------- *)

\* the page with has_more derived from is_exhausted alone
Slice_unexhausted_only(c) ==
    /\ calls[c].pc = "slice"
    /\ LET f == calls[c]
           session == sessions[f.sid]
           sliced_results == get_results(session, f.offset, f.num)
           last == f.offset + Len(sliced_results)
           has_more == ~session.is_exhausted
       IN /\ sessions' = [sessions EXCEPT ![f.sid].last_returned_offset = last]
          /\ ret' = [ret EXCEPT ![c] =
                [kind |-> "page", op |-> f.op, sid |-> f.sid,
                 offset |-> f.offset, num |-> f.num,
                 results |-> sliced_results,
                 results_returned |-> Len(sliced_results),
                 total_results_available |-> Len(session.results),
                 has_more |-> has_more,
                 next_offset |-> IF has_more THEN last ELSE -1,
                 requests |-> f.requests, pass_ok |-> f.pass_ok,
                 pass_new |-> f.pass_new, fallback |-> f.fallback,
                 passes |-> f.passes, new_session |-> f.has_locs,
                 overlapped |-> f.overlapped]]
          /\ calls' = [calls EXCEPT ![c] = IdleFrame]
    /\ source' = [source EXCEPT ![c] = "none"]
    /\ UNCHANGED jobvars

\* sliced_results = session.get_results(offset, num_results);
\* session.last_returned_offset = offset + len(sliced_results); pagination
Slice(c) ==
    /\ calls[c].pc = "slice"
    /\ LET f == calls[c]
           session == sessions[f.sid]
           sliced_results == get_results(session, f.offset, f.num)
           last == f.offset + Len(sliced_results)
           has_more == last < Len(session.results) \/ ~session.is_exhausted
       IN /\ sessions' = [sessions EXCEPT ![f.sid].last_returned_offset = last]
          /\ ret' = [ret EXCEPT ![c] =
                [kind |-> "page", op |-> f.op, sid |-> f.sid,
                 offset |-> f.offset, num |-> f.num,
                 results |-> sliced_results,
                 results_returned |-> Len(sliced_results),
                 total_results_available |-> Len(session.results),
                 has_more |-> has_more,
                 next_offset |-> IF has_more THEN last ELSE -1,
                 requests |-> f.requests, pass_ok |-> f.pass_ok,
                 pass_new |-> f.pass_new, fallback |-> f.fallback,
                 passes |-> f.passes, new_session |-> f.has_locs,
                 overlapped |-> f.overlapped]]
          /\ calls' = [calls EXCEPT ![c] = IdleFrame]
    /\ source' = [source EXCEPT ![c] = "none"]
    /\ UNCHANGED jobvars

(* ---------------- DeficitCollector ---------------- *)

\* the engine coroutines of the job: the request that opens the session and
\* the continuation requests of the collector
JobCaller == "c1"

CollectorCaller == "c2"

\* request.num_results of the jobs
Targets == {0, 1, 20}

\* max_total_pull of the jobs
MaxTotalPulls == {5, 15}

\* initial_results: List[SearchResult], the objects the caller made of the
\* items of the first page
AsSearchResults(page) ==
    [i \in 1..Len(page) |-> [link |-> page[i].link, typed |-> TRUE]]

\* more.get("results", []): the dicts of session.results as they are
AsDicts(page) ==
    [i \in 1..Len(page) |-> [link |-> page[i].link, typed |-> FALSE]]

\* the loop is left (break) or an exception leaves the coroutine
Stop(status) == [collector EXCEPT !.pc = "done", !.status = status]

\* collect_until_fulfilled is called: results = list(initial_results),
\* result_index = 0, total_consumed = 0
collect_until_fulfilled(initial_results, session_id, num_results, max_total_pull) ==
    /\ collector.pc = "idle"
    /\ \A c \in Callers : calls[c].pc = "idle"
    /\ collector' = [IdleCollector EXCEPT !.pc = "count",
                                          !.session_id = session_id,
                                          !.num_results = num_results,
                                          !.max_total_pull = max_total_pull,
                                          !.results = initial_results]
    /\ UNCHANGED <<sessions, calls, ret, source, generatedCount>>

\* head of the loop with the target test "deficit < 0"
LoopHead_below_zero ==
    /\ collector.pc = "count"
    /\ LET deficit == collector.num_results - generatedCount
           pull == /\ deficit >= 0
                   /\ collector.result_index >= Len(collector.results)
                   /\ collector.total_consumed < collector.max_total_pull
       IN /\ collector' =
                IF deficit < 0 THEN Stop("TARGET_MET")
                ELSE IF collector.result_index >= Len(collector.results)
                THEN IF collector.total_consumed >= collector.max_total_pull
                     THEN Stop("CAP_REACHED")
                     ELSE [collector EXCEPT
                             !.pc = "pull", !.deficit = deficit,
                             !.pulls = @ + 1,
                             !.fetch_n =
                                Min(MAX_CHUNK_SIZE * 2,
                                    Max(MIN_FETCH, deficit * OVERFETCH_FACTOR))]
                ELSE [collector EXCEPT !.pc = "chunk", !.deficit = deficit]
          /\ ret' = IF pull THEN [ret EXCEPT ![CollectorCaller] = NoRet]
                            ELSE ret
    /\ UNCHANGED <<sessions, calls, source, generatedCount>>

\* head of "while True": the generated count is read from the job,
\* deficit = request.num_results - current_generated; "if deficit <= 0:
\* break"; with the buffer used up, "if total_consumed >= max_total_pull:
\* break", else fetch_n is computed and get_more_results is about to be
\* called
LoopHead ==
    /\ collector.pc = "count"
    /\ LET deficit == collector.num_results - generatedCount
           pull == /\ deficit > 0
                   /\ collector.result_index >= Len(collector.results)
                   /\ collector.total_consumed < collector.max_total_pull
       IN /\ collector' =
                IF deficit <= 0 THEN Stop("TARGET_MET")
                ELSE IF collector.result_index >= Len(collector.results)
                THEN IF collector.total_consumed >= collector.max_total_pull
                     THEN Stop("CAP_REACHED")
                     ELSE [collector EXCEPT
                             !.pc = "pull", !.deficit = deficit,
                             !.pulls = @ + 1,
                             !.fetch_n =
                                Min(MAX_CHUNK_SIZE * 2,
                                    Max(MIN_FETCH, deficit * OVERFETCH_FACTOR))]
                ELSE [collector EXCEPT !.pc = "chunk", !.deficit = deficit]
          /\ ret' = IF pull THEN [ret EXCEPT ![CollectorCaller] = NoRet]
                            ELSE ret
    /\ UNCHANGED <<sessions, calls, source, generatedCount>>

\* "more = await self.search_engine.get_more_results(session_id=session_id,
\* num_results=fetch_n)": the call is made
CollectorPull ==
    /\ collector.pc = "pull"
    /\ ret[CollectorCaller].kind = "none"
    /\ get_more_results(CollectorCaller, collector.session_id,
                        collector.fetch_n)

\* get_more_results has returned: an exception of it leaves the collector
\* (nothing catches it); "if not new_results: break"; else
\* results.extend(new_results)
PullReturns ==
    /\ collector.pc = "pull"
    /\ calls[CollectorCaller].pc = "idle"
    /\ ret[CollectorCaller].kind # "none"
    /\ LET more == ret[CollectorCaller]
       IN collector' =
             IF more.kind # "page" THEN Stop(more.kind)
             ELSE IF more.results = << >> THEN Stop("SOURCE_EXHAUSTED")
             ELSE [collector EXCEPT !.pc = "chunk",
                                    !.results = @ \o AsDicts(more.results)]
    /\ UNCHANGED <<sessions, calls, ret, source, generatedCount>>

\* a chunk of no item: nothing is cut from the buffer or counted
TakeChunk_empty ==
    /\ collector.pc = "chunk"
    /\ collector' = [collector EXCEPT !.pc = "pre", !.urls = << >>]
    /\ UNCHANGED <<sessions, calls, ret, source, generatedCount>>

\* chunk_size = min(max_chunk_size, max(1, int(deficit * overfetch_factor)));
\* the chunk is cut and counted; "urls = [r.link for r in current_chunk]"
\* raises AttributeError on a dict; else the count is about to be read
\* again (pre_job)
TakeChunk ==
    /\ collector.pc = "chunk"
    /\ LET chunk_size ==
              Min(MAX_CHUNK_SIZE,
                  Max(1, collector.deficit * OVERFETCH_FACTOR))
           current_chunk ==
              SubSeq(collector.results, collector.result_index + 1,
                     Min(collector.result_index + chunk_size,
                         Len(collector.results)))
           counted ==
              [collector EXCEPT
                 !.result_index = @ + Len(current_chunk),
                 !.total_consumed = @ + Len(current_chunk)]
       IN collector' =
             IF \E i \in 1..Len(current_chunk) : ~current_chunk[i].typed
             THEN [counted EXCEPT !.pc = "done", !.status = "AttributeError"]
             ELSE [counted EXCEPT
                     !.pc = "pre",
                     !.urls = [i \in 1..Len(current_chunk) |->
                                  current_chunk[i].link]]
    /\ UNCHANGED <<sessions, calls, ret, source, generatedCount>>

\* pre_count = pre_job.generatedCount is read and extractor.extract is
\* called with the urls of the chunk: nothing is tested in between
ReadPreCount ==
    /\ collector.pc = "pre"
    /\ collector' = [collector EXCEPT !.pc = "extract",
                                      !.pre_count = generatedCount,
                                      !.submitted = @ \o collector.urls,
                                      !.urls = << >>]
    /\ UNCHANGED <<sessions, calls, ret, source, generatedCount>>

\* extractor.extract has returned and the count after it is read: back to
\* the head of the loop
ExtractReturns ==
    /\ collector.pc = "extract"
    /\ collector' = [collector EXCEPT !.pc = "count"]
    /\ UNCHANGED <<sessions, calls, ret, source, generatedCount>>

\* the job's generatedCount rises (the extraction, or another worker of the
\* job, accepted a lead) while the collector is suspended at an await
OracleAdvance ==
    /\ collector.pc \in {"count", "pull", "pre", "extract"}
    /\ generatedCount < MaxAccepted
    /\ generatedCount' = generatedCount + 1
    /\ UNCHANGED <<sessions, calls, ret, source, collector>>

\* the job opens the session with its first page
Kickoff(num_results) ==
    /\ collector.pc = "idle"
    /\ ret[JobCaller].kind = "none"
    /\ search_with_offset(JobCaller, "default_user", "p1", 0, num_results)

\* session_id handed to the collector: the id of the page of the job, or
\* one the engine does not hold (a process restarted since the page)
SessionHandles == {generate_session_id("default_user", "p1"), UnknownSid}

\* a collection job: one search_with_offset opens the session, its page is
\* handed to collect_until_fulfilled, whose continuation requests are the
\* only other calls on the session
NextCollect ==
    \/ \E k \in Counts : Kickoff(k)
    \/ \E qs \in PlanChoices : PlannerReturns(JobCaller, qs)
    \/ FallbackTest(JobCaller)
    \/ \E dq \in DiversifyChoices : DiversifyReturns(JobCaller, dq)
    \/ GrowTest(JobCaller)
    \/ \E c \in Callers : FetchEnter(c)
    \/ \E c \in Callers : FetchLoop(c)
    \/ \E c \in Callers, n \in 0..MAX_BATCH : SourceReturns(c, n)
    \/ \E c \in Callers : SourceFails(c)
    \/ \E c \in Callers : FetchExit(c)
    \/ \E c \in Callers : Slice(c)
    \/ \E t \in Targets, m \in MaxTotalPulls, sid \in SessionHandles :
          /\ ret[JobCaller].kind = "page"
          /\ collect_until_fulfilled(AsSearchResults(ret[JobCaller].results),
                                     sid, t, m)
    \/ LoopHead
    \/ CollectorPull
    \/ PullReturns
    \/ TakeChunk
    \/ ReadPreCount
    \/ ExtractReturns
    \/ OracleAdvance

SpecCollect == Init /\ [][NextCollect]_vars

\* the statements of collect_until_fulfilled between two awaits, and the
\* returns of its awaits on the job record and on the extractor
CollectorRuns ==
    \/ LoopHead
    \/ CollectorPull
    \/ PullReturns
    \/ TakeChunk
    \/ ReadPreCount
    \/ ExtractReturns

\* the continuation request of the collector runs on, and the source
\* answers its requests (with a page or with a failure)
PullRuns ==
    \/ FetchEnter(CollectorCaller)
    \/ FetchLoop(CollectorCaller)
    \/ \E n \in 0..MAX_BATCH : SourceReturns(CollectorCaller, n)
    \/ SourceFails(CollectorCaller)
    \/ FetchExit(CollectorCaller)
    \/ Slice(CollectorCaller)

\* a collection in which every external call returns: the event loop
\* resumes a coroutine whose await has completed
SpecCollectFair ==
    SpecCollect /\ WF_vars(CollectorRuns) /\ WF_vars(PullRuns)

(* ---------------- specification ---------------- *)

\* one caller at a time: the calls on a session are serialised
Step(c) ==
    \/ \E u \in Users, p \in Prompts, o \in Offsets, k \in Counts :
          search_with_offset(c, u, p, o, k)
    \/ \E qs \in PlanChoices : PlannerReturns(c, qs)
    \/ FallbackTest(c)
    \/ \E dq \in DiversifyChoices : DiversifyReturns(c, dq)
    \/ GrowTest(c)
    \/ \E sid \in {generate_session_id("default_user", "p1"), UnknownSid},
          k \in Counts : get_more_results(c, sid, k)
    \/ FetchEnter(c)
    \/ FetchLoop(c)
    \/ \E n \in 0..MAX_BATCH : SourceReturns(c, n)
    \/ SourceFails(c)
    \/ FetchExit(c)
    \/ Slice(c)

Next == Step("c1")

Spec == Init /\ [][Next]_vars

\* the same operations for one prompt that the planner turns into the
\* queries s1, s2, s3, paged ten items at a time; a request may also be
\* cancelled at one of its awaits
ScenOffsets == {0, 10}

ScenCounts == {10}

StepScen(c) ==
    \/ \E u \in Users, p \in Prompts, o \in ScenOffsets, k \in ScenCounts :
          search_with_offset(c, u, p, o, k)
    \/ PlannerReturns(c, ScenPlan)
    \/ FallbackTest(c)
    \/ \E dq \in DiversifyChoices : DiversifyReturns(c, dq)
    \/ GrowTest(c)
    \/ \E sid \in {generate_session_id("default_user", "p1"), UnknownSid},
          k \in ScenCounts : get_more_results(c, sid, k)
    \/ FetchEnter(c)
    \/ FetchLoop(c)
    \/ \E n \in 0..MAX_BATCH : SourceReturns(c, n)
    \/ SourceFails(c)
    \/ Cancelled(c)
    \/ FetchExit(c)
    \/ Slice(c)

NextScen == StepScen("c1")

SpecScen == Init /\ [][NextScen]_vars

\* one caller that opens the session with a first page and then keeps
\* asking for the next page
StepMore(c) ==
    \/ \E k \in Counts :
          /\ generate_session_id("default_user", "p1") \notin DOMAIN sessions
          /\ search_with_offset(c, "default_user", "p1", 0, k)
    \/ \E qs \in PlanChoices : PlannerReturns(c, qs)
    \/ FallbackTest(c)
    \/ \E dq \in DiversifyChoices : DiversifyReturns(c, dq)
    \/ GrowTest(c)
    \/ \E k \in Counts :
          /\ generate_session_id("default_user", "p1") \in DOMAIN sessions
          /\ get_more_results(c, generate_session_id("default_user", "p1"), k)
    \/ FetchEnter(c)
    \/ FetchLoop(c)
    \/ \E n \in 0..MAX_BATCH : SourceReturns(c, n)
    \/ SourceFails(c)
    \/ FetchExit(c)
    \/ Slice(c)

NextMore == StepMore("c1")

\* the caller never stops asking and every await comes back: the planner
\* answers, the source answers with a page or with a failure
SpecMore == Init /\ [][NextMore]_vars /\ WF_vars(NextMore)

(* ---------------- overlapping calls ---------------- *)

\* a coroutine between two awaits: the event loop runs it up to its next
\* await (planner, source) or to its return before any other coroutine
Running(c) ==
    calls[c].pc \in {"swo_fallback", "swo_main", "fm_enter", "fm_loop",
                     "fm_exit", "slice"}

\* the call that creates the session, from its entry to its return
Creating(c) == calls[c].pc = "swo_plan" \/ calls[c].has_locs

\* the first caller starts calls one after the other while the session
\* holds fewer than MaxConcLen items; the second caller starts one call,
\* while a call of the first is in flight; after it has returned no further
\* call is started.  The call that creates the session runs alone (a
\* second creation overlapping it would replace the session object, line
\* 340, while the first still holds the old one).
MayBegin(c, sid) ==
    IF c = "c1"
    THEN /\ ret["c2"].kind = "none"
         /\ sid \in DOMAIN sessions =>
               Len(sessions[sid].results) < MaxConcLen
    ELSE /\ ret[c].kind = "none"
         /\ calls["c1"].pc # "idle"
         /\ ~Creating("c1")

\* the callers of the service run their requests as coroutines of one event
\* loop: any of them may start a call or be resumed whenever no other is
\* between awaits
Scheduled(c) == \A d \in Callers \ {c} : ~Running(d)

StepConc(c) ==
    \/ \E u \in Users, p \in Prompts, k \in Counts :
          /\ Scheduled(c)
          /\ MayBegin(c, generate_session_id(u, p))
          /\ search_with_offset(c, u, p, 0, k)
    \/ \E qs \in PlanChoices : Scheduled(c) /\ PlannerReturns(c, qs)
    \/ Scheduled(c) /\ FallbackTest(c)
    \/ \E dq \in DiversifyChoices : Scheduled(c) /\ DiversifyReturns(c, dq)
    \/ Scheduled(c) /\ GrowTest(c)
    \/ \E k \in Counts :
          /\ Scheduled(c)
          /\ MayBegin(c, generate_session_id("default_user", "p1"))
          /\ get_more_results(c, generate_session_id("default_user", "p1"), k)
    \/ Scheduled(c) /\ FetchEnter(c)
    \/ Scheduled(c) /\ FetchLoop(c)
    \/ \E n \in 0..MAX_BATCH : Scheduled(c) /\ SourceReturns(c, n)
    \/ Scheduled(c) /\ SourceFails(c)
    \/ Scheduled(c) /\ FetchExit(c)
    \/ Scheduled(c) /\ Slice(c)

NextConc == \E c \in Callers : StepConc(c)

SpecConc == Init /\ [][NextConc]_vars


(* ---------------- properties ---------------- *)

Known(c) == calls[c].pc # "idle" /\ calls[c].sid \in DOMAIN sessions

\* C1: session.results never holds two items with the same link, whatever
\* the source answers (a page repeating a link inside itself, a link another
\* query returned before), so no two items handed out share a link.
C1_NoDuplicateLinks ==
    \A sid \in DOMAIN sessions : NoDuplicateLinks(sessions[sid].results)

\* C2: every cursor query_positions[q] is at most 100 in every reachable
\* session state, and no source request is issued for a query whose cursor
\* has reached the cap.
C2_CursorCap ==
    /\ \A sid \in DOMAIN sessions :
          \A q \in DOMAIN sessions[sid].query_positions :
             sessions[sid].query_positions[q] <= CSE_LIMIT
    /\ \A c \in Callers :
          calls[c].pc = "fm_await" => calls[c].start_index <= CSE_LIMIT

\* C3: last_returned_offset of a session never decreases, whatever offsets
\* and counts the callers pass.
C3_LastReturnedOffsetMonotone ==
    [][\A sid \in DOMAIN sessions :
          sid \in DOMAIN sessions' /\
          sessions'[sid].last_returned_offset >=
              sessions[sid].last_returned_offset]_vars

\* C4: results only grows by appending: for every step the results before
\* are a prefix of the results after.  Hence the items of a page handed out
\* stay at their offsets; total_results_available does not decrease from
\* one page of a session to the next; and a call with the same (offset,
\* count) as the previous one, with no growth in between, returns the
\* identical slice.
C4_AppendOnly ==
    [][/\ \A sid \in DOMAIN sessions :
             /\ sid \in DOMAIN sessions'
             /\ IsPrefix(sessions[sid].results, sessions'[sid].results)
       /\ \A c \in Callers :
             ret'[c].kind = "page" =>
                LET r == ret'[c]
                    now == sessions'[r.sid].results
                IN /\ r.total_results_available <= Len(now)
                   /\ \A i \in 1..Len(r.results) :
                         r.results[i] = now[r.offset + i]
       /\ \A c \in Callers :
             (ret[c].kind = "page" /\ ret'[c].kind = "page"
                /\ ret[c].sid = ret'[c].sid) =>
                /\ ret'[c].total_results_available >=
                      ret[c].total_results_available
                /\ (ret[c].offset = ret'[c].offset /\ ret[c].num = ret'[c].num
                      /\ ret'[c].total_results_available =
                            ret[c].total_results_available)
                   => ret'[c].results = ret[c].results]_vars

C4_Witness ==
    \E c \in Callers :
       /\ ret[c].kind = "page"
       /\ ret[c].results_returned > 0
       /\ ret[c].total_results_available < Len(sessions[ret[c].sid].results)

C6_FallbackRecovers ==
    \A c \in Callers :
       (/\ ret[c].kind = "page"
        /\ ret[c].fallback
        /\ ret[c].offset = 0
        /\ \E q \in Range(sessions[ret[c].sid].queries) : CorpusSize(q) > 0)
       => /\ ret[c].results_returned > 0
          /\ Len(sessions[ret[c].sid].results) > 0

\* C7: a source failure for one query after another query of the same pass
\* was fetched does not fail the public operation.
C7_PartialGrowthNotAnError ==
    \A c \in Callers :
       (source[c] = "failure" /\ ret[c].pass_new > 0) => ret[c].kind = "page"

\* C8: a source failure during growth ends the public call with the source
\* error (no page, is_exhausted untouched); an empty source answer raises
\* nothing and leaves the cursor of the query where it was.
C8_SourceErrorSurfaced ==
    [][\A c \in Callers :
          /\ (source'[c] = "failure" /\ calls[c].pc = "fm_await") =>
                /\ ret'[c].kind = "GoogleSearchError"
                /\ calls'[c].pc = "idle"
                /\ sessions' = sessions
          /\ source'[c] = "failure" => ret'[c].kind = "GoogleSearchError"
          /\ (source'[c] = "empty" /\ calls[c].pc = "fm_await") =>
                /\ sessions' = sessions
                /\ ret' = ret
                /\ calls'[c].pc = "fm_loop"]_vars

C8_Witness ==
    \E c \in Callers :
       /\ source[c] = "failure"
       /\ ret[c].pass_ok > 0
       /\ ~sessions[ret[c].sid].is_exhausted

\* C9: every search_with_offset call, and every get_more_results call on a
\* known session, ends with a page or with the source error.
C9_PageOrSourceError ==
    [][\A c \in Callers :
          (ret'[c] # ret[c] /\ ret'[c].sid \in DOMAIN sessions)
             => ret'[c].kind \in {"page", "GoogleSearchError"}]_vars

\* C10: get_more_results with a session id that is not in the session map
\* raises the not-found error, starts no planner call and no source request
\* and leaves the session map as it was.
C10_UnknownSession ==
    [][\A c \in Callers :
          /\ (ret'[c] # ret[c] /\ ret'[c].op = "get_more_results"
                /\ ret'[c].sid \notin DOMAIN sessions) =>
                /\ ret'[c].kind = "ValueError"
                /\ sessions' = sessions
                /\ calls[c].pc = "idle"
                /\ calls'[c].pc = "idle"
          /\ calls'[c].op = "get_more_results" =>
                calls'[c].sid \in DOMAIN sessions]_vars

C10_Witness ==
    \E c \in Callers :
       /\ ret[c].kind = "ValueError"
       /\ ret[c].sid = UnknownSid
       /\ \E sid \in DOMAIN sessions : Len(sessions[sid].results) > 0

\* C11: get_more_results serves results[L : L + count], L being the
\* last_returned_offset the previous pagination call of the session left
\* (offset + returned count of its page), and then sets last_returned_offset
\* to L + returned count; consecutive get_more_results calls therefore hand
\* out contiguous slices that do not overlap.
C11_ContinuationSlices ==
    [][\A c \in Callers :
          /\ (calls[c].pc = "idle" /\ calls'[c].op = "get_more_results") =>
                calls'[c].offset =
                   sessions[calls'[c].sid].last_returned_offset
          /\ (calls[c].op = "get_more_results" /\ calls[c].pc = "slice") =>
                LET f == calls[c]
                    L == sessions[f.sid].last_returned_offset
                    r == ret'[c]
                    now == sessions'[f.sid]
                IN /\ r.kind = "page"
                   /\ r.offset = L
                   /\ f.offset = L
                   /\ r.results =
                         SubSeq(now.results, L + 1,
                                Min(L + f.num, Len(now.results)))
                   /\ now.last_returned_offset = L + Len(r.results)
                   /\ (ret[c].kind = "page" /\ ret[c].sid = f.sid) =>
                         L = ret[c].offset + ret[c].results_returned]_vars

C11_Witness ==
    \E c \in Callers :
       /\ ret[c].kind = "page"
       /\ ret[c].op = "get_more_results"
       /\ ret[c].offset > MaxCount
       /\ ret[c].results_returned > 0

\* C12: in every page returned by search_with_offset or get_more_results,
\* results_returned is the length of the slice, total_results_available is
\* len(session.results), has_more is true exactly when
\* offset + results_returned < len(session.results) or the session is not
\* exhausted, and next_offset = offset + results_returned whenever has_more.
C12_PaginationFields ==
    [][\A c \in Callers :
          (calls[c].pc = "slice" /\ calls'[c].pc = "idle") =>
             LET r == ret'[c]
                 s == sessions'[r.sid]
             IN /\ r.kind = "page"
                /\ r.results =
                      SubSeq(s.results, r.offset + 1,
                             Min(r.offset + r.num, Len(s.results)))
                /\ r.results_returned = Len(r.results)
                /\ r.total_results_available = Len(s.results)
                /\ r.has_more <=>
                      (r.offset + r.results_returned < Len(s.results)
                         \/ ~s.is_exhausted)
                /\ r.has_more => r.next_offset = r.offset + r.results_returned]_vars

C12_Witness ==
    \E c \in Callers :
       /\ ret[c].kind = "page"
       /\ ret[c].has_more
       /\ ret[c].results_returned > 0
       /\ ret[c].sid \in DOMAIN sessions
       /\ sessions[ret[c].sid].is_exhausted
       /\ sessions[ret[c].sid].last_returned_offset = ret[c].next_offset

\* C13: a new session with three queries whose first source requests return
\* 4, 3 and 5 items, 12 distinct links in all: search_with_offset(offset 0,
\* count 10) returns exactly 10 items with has_more = true and
\* total_results_available = 12.
C13_FirstPageOfTwelve ==
    [][\A c \in Callers :
          (/\ calls[c].pc = "slice"
           /\ calls[c].op = "search_with_offset"
           /\ calls[c].has_locs
           /\ calls[c].offset = 0 /\ calls[c].num = 10
           /\ calls[c].passes = 1 /\ calls[c].requests = 3
           /\ sessions[calls[c].sid].queries = ScenPlan
           /\ sessions[calls[c].sid].query_positions["s1"] = 4
           /\ sessions[calls[c].sid].query_positions["s2"] = 3
           /\ sessions[calls[c].sid].query_positions["s3"] = 5
           /\ Cardinality(Links(sessions[calls[c].sid].results)) = 12)
          => /\ ret'[c].kind = "page"
             /\ ret'[c].results_returned = 10
             /\ Len(ret'[c].results) = 10
             /\ ret'[c].has_more
             /\ ret'[c].total_results_available = 12]_vars

C13_Witness ==
    \E c \in Callers :
       /\ ret[c].kind = "page"
       /\ ret[c].new_session
       /\ ret[c].offset = 0 /\ ret[c].num = 10
       /\ ret[c].passes = 1 /\ ret[c].requests = 3
       /\ ret[c].sid \in DOMAIN sessions
       /\ sessions[ret[c].sid].query_positions = [q \in ScenQueries |->
             CASE q = "s1" -> 4 [] q = "s2" -> 3 [] OTHER -> 5]
       /\ Cardinality(Links(sessions[ret[c].sid].results)) = 12
       /\ sessions[ret[c].sid].last_returned_offset = 10

\* C14: on that session (12 items buffered, 10 served),
\* search_with_offset(offset 10, count 10) runs exactly one more growth pass
\* and returns the 2 remaining items followed by the items the pass added,
\* at most 10 in all, none with a link among the first 10 items returned.
C14_SecondPage ==
    [][\A c \in Callers :
          (/\ calls[c].pc = "slice"
           /\ calls[c].op = "search_with_offset"
           /\ ~calls[c].has_locs
           /\ calls[c].offset = 10 /\ calls[c].num = 10
           /\ ret[c].kind = "page" /\ ret[c].op = "search_with_offset"
           /\ ret[c].sid = calls[c].sid
           /\ ret[c].new_session
           /\ ret[c].passes = 1 /\ ret[c].requests = 3
           /\ ret[c].offset = 0 /\ ret[c].results_returned = 10
           /\ ret[c].total_results_available = 12
           /\ Cardinality(Links(SubSeq(sessions[calls[c].sid].results,
                                        1, 12))) = 12)
          => LET before == ret[c]
                 now == sessions'[calls[c].sid].results
                 r == ret'[c]
             IN /\ calls[c].passes = 1
                /\ r.kind = "page"
                /\ Len(r.results) >= 2 /\ Len(r.results) <= 10
                /\ r.results = SubSeq(now, 11, Min(20, Len(now)))
                /\ SubSeq(r.results, 1, 2) =
                      SubSeq(sessions[calls[c].sid].results, 11, 12)
                /\ Len(now) = 12 + calls[c].pass_new
                /\ Links(r.results) \cap Links(before.results) = {}]_vars

C14_Witness ==
    \E c \in Callers :
       /\ ret[c].kind = "page" /\ ret[c].op = "search_with_offset"
       /\ ~ret[c].new_session
       /\ ret[c].offset = 10 /\ ret[c].num = 10
       /\ ret[c].passes = 1
       /\ ret[c].pass_new > 0
       /\ ret[c].results_returned > 2
       /\ ret[c].total_results_available = 12 + ret[c].pass_new
       /\ Cardinality(Links(SubSeq(sessions[ret[c].sid].results, 1, 12))) = 12

\* C15: a repeated search_with_offset with the same caller and prompt on
\* the same day resolves to the session that exists: it does not ask the
\* planner for the initial plan again, and when offset + count is at most
\* len(results) it issues no source request and leaves results and every
\* cursor as they were.
C15_SessionReuse ==
    [][\A c \in Callers :
          /\ (/\ calls[c].pc = "idle"
              /\ calls'[c].op = "search_with_offset"
              /\ calls'[c].sid \in DOMAIN sessions) =>
                /\ calls'[c].pc # "swo_plan"
                /\ sessions' = sessions
          /\ (/\ calls[c].op = "search_with_offset"
              /\ ~calls[c].has_locs
              /\ calls[c].pc \in {"swo_fallback", "swo_main", "slice"}
              /\ calls[c].passes = 0) =>
                LET f == calls[c]
                    s == sessions[f.sid]
                    t == sessions'[f.sid]
                IN /\ calls'[c].pc \notin {"swo_plan", "swo_diversify"}
                   /\ f.offset + f.num <= Len(s.results) =>
                         /\ calls'[c].pc \in {"swo_main", "slice", "idle"}
                         /\ calls'[c].requests = 0
                         /\ t.results = s.results
                         /\ t.query_positions = s.query_positions
                         /\ t.queries = s.queries
                         /\ t.is_exhausted = s.is_exhausted
                         /\ f.pc = "slice" =>
                               /\ ret'[c].kind = "page"
                               /\ ret'[c].requests = 0
                               /\ ret'[c].results_returned = f.num]_vars

C15_Witness ==
    \E c \in Callers :
       /\ ret[c].kind = "page" /\ ret[c].op = "search_with_offset"
       /\ ~ret[c].new_session
       /\ ret[c].requests = 0
       /\ ret[c].num = MaxCount
       /\ ret[c].results_returned = MaxCount
       /\ ~sessions[ret[c].sid].is_exhausted

C17_OverlappingCallsSerialised ==
    \A c, d \in Callers :
       (/\ c # d
        /\ calls[c].pc = "idle" /\ calls[d].pc = "idle"
        /\ ret[c].kind = "page" /\ ret[d].kind = "page"
        /\ ret[c].op = "get_more_results" /\ ret[d].op = "get_more_results"
        /\ ret[c].sid = ret[d].sid
        /\ ret[c].overlapped /\ ret[d].overlapped
        /\ ret[c].offset <= ret[d].offset)
       => /\ ret[c].offset + ret[c].results_returned <= ret[d].offset
          /\ sessions[ret[c].sid].last_returned_offset =
                ret[c].offset + ret[c].results_returned
                              + ret[d].results_returned

\* C18: whenever an iteration of the collector loop starts with the accepted
\* count at or above the target, the collector stops as TARGET_MET without
\* pulling or submitting anything more; with a target of 0 that is the first
\* iteration, so no source call is made at all.
C18_TargetMetStops ==
    [][/\ (/\ collector.pc = "count"
           /\ collector' # collector
           /\ generatedCount >= collector.num_results) =>
             /\ collector'.pc = "done"
             /\ collector'.status = "TARGET_MET"
             /\ collector'.submitted = collector.submitted
             /\ collector'.pulls = collector.pulls
             /\ calls' = calls /\ sessions' = sessions
       /\ (collector'.pc # "idle" /\ collector'.num_results = 0) =>
             /\ collector'.pulls = 0
             /\ collector'.submitted = << >>
             /\ calls'[CollectorCaller].pc = "idle"
             /\ collector'.pc = "done" => collector'.status = "TARGET_MET"
       /\ (collector.pc = "done" /\ collector.status = "TARGET_MET") =>
             /\ collector' = collector
             /\ calls' = calls]_vars

C18_Witness ==
    /\ collector.pc = "done"
    /\ collector.status = "TARGET_MET"
    /\ collector.num_results > 0
    /\ collector.total_consumed > 0
    /\ collector.result_index < Len(collector.results)

C20_CapAfterEveryChunk ==
    [][(/\ collector.pc \in {"count", "chunk"}
        /\ collector.total_consumed >= collector.max_total_pull
        /\ collector.submitted # << >>
        /\ generatedCount < collector.num_results
        /\ collector' # collector) =>
          /\ collector'.pc = "done"
          /\ collector'.status = "CAP_REACHED"
          /\ collector'.submitted = collector.submitted]_vars

C22_NoSubmissionOnceTargetMet ==
    collector.pc = "extract" =>
       collector.pre_count < collector.num_results

\* C23: every run of collect_until_fulfilled ends in one of the terminal
\* states TARGET_MET, SOURCE_EXHAUSTED, CAP_REACHED, as a normal completion
\* and never as an exception, whatever the source and the session store do
\* (a continuation pull meeting a source error or an unknown session
\* included).
C23_TerminalStates ==
    collector.pc = "done" =>
       collector.status \in {"TARGET_MET", "SOURCE_EXHAUSTED", "CAP_REACHED"}

\* C24: one growth pass visits session.queries in list order, at most once
\* each; it stops as soon as needed <= 0 and skips a query whose cursor is
\* >= 100; each source request asks for min(10, needed) items starting at
\* cursor + 1; when the page is back that query's cursor advances by the
\* number of items the source returned, the items not yet in results are
\* appended, and needed decreases by the number of items appended only.
C24_GrowthPass ==
    [][\A c \in Callers :
         LET f == calls[c]
             g == calls'[c]
             query == f.qlist[f.qi]
             session == sessions[f.sid]
             after == sessions'[f.sid]
         IN /\ (f.pc = "fm_loop" /\ g.pc = "fm_await") =>
                  /\ f.qi <= Len(f.qlist) /\ g.qi = f.qi
                  /\ f.needed > 0
                  /\ session.query_positions[query] < CSE_LIMIT
                  /\ g.batch_size = Min(MAX_BATCH, f.needed)
                  /\ g.start_index = session.query_positions[query] + 1
                  /\ g.pass_requests <= g.qi
                  /\ sessions' = sessions
            /\ (f.pc = "fm_loop" /\ g.pc = "fm_loop") =>
                  /\ f.qi <= Len(f.qlist) /\ g.qi = f.qi + 1
                  /\ f.needed > 0
                  /\ session.query_positions[query] >= CSE_LIMIT
                  /\ sessions' = sessions
            /\ (f.pc = "fm_loop" /\ g.pc = "fm_exit") =>
                  /\ f.needed <= 0 \/ f.qi > Len(f.qlist)
                  /\ sessions' = sessions
            /\ (f.pc = "fm_await" /\ g.pc = "fm_loop") =>
                  /\ g.qi = f.qi + 1
                  /\ g.fetched \in 0..f.batch_size
                  /\ after.query_positions =
                        [session.query_positions EXCEPT
                           ![query] = @ + g.fetched]
                  /\ after.results =
                        session.results \o
                        FilterNotIn(normalized_results(query, f.start_index,
                                                       g.fetched),
                                    Links(session.results))
                  /\ g.needed =
                        f.needed - (Len(after.results) - Len(session.results))
                  /\ after.queries = session.queries
                  /\ after.is_exhausted = session.is_exhausted
      ]_vars

\* a page of which some items were already in results has just been merged
C24_Witness ==
    \E c \in Callers :
       /\ calls[c].pc = "fm_loop"
       /\ calls[c].fetched = MAX_BATCH
       /\ calls[c].pass_new = 1
       /\ calls[c].pass_ok = 1
       /\ calls[c].needed = calls[c].target - calls[c].current_count - 1
       /\ sessions[calls[c].sid].query_positions[calls[c].qlist[1]]
             = calls[c].start_index + MAX_BATCH - 1

\* C25: in every reachable session state query_positions holds a cursor for
\* exactly the queries of session.queries: after the fallback has
\* overwritten queries, each replacement query has a cursor (starting at 0)
\* and the cursors of the discarded queries are gone.
C25_CursorsMatchQueries ==
    \A sid \in DOMAIN sessions :
       DOMAIN sessions[sid].query_positions = Range(sessions[sid].queries)

\* C26: when a source request fails, or the caller is cancelled at a source
\* call, in the middle of a growth pass, the session is left as the pass
\* had it at that moment: the items merged from the queries answered
\* earlier in the pass stay in results and their cursors stay advanced, the
\* cursor of the query whose request failed still stands before the page
\* asked for, and is_exhausted and last_returned_offset are unchanged.
C26_FailureKeepsPartialWork ==
    [][\A c \in Callers :
         (calls[c].pc = "fm_await" /\ calls'[c].pc = "idle") =>
            LET f == calls[c]
                session == sessions[f.sid]
            IN /\ ret'[c].kind \in {"GoogleSearchError", "CancelledError"}
               /\ sessions' = sessions
               /\ Len(session.results) = f.current_count + f.pass_new
               /\ session.query_positions[f.qlist[f.qi]] = f.start_index - 1
               /\ ret'[c].pass_new = f.pass_new
      ]_vars

\* a request cancelled at the source call of the second or third query of
\* a pass that had merged items before
C26_Witness ==
    \E c \in Callers :
       /\ ret[c].kind = "CancelledError"
       /\ ret[c].pass_ok >= 1
       /\ ret[c].pass_new >= 3
       /\ calls[c].pc = "idle"
       /\ Len(sessions[ret[c].sid].results) >= ret[c].pass_new
       /\ ~sessions[ret[c].sid].is_exhausted
       /\ \E q \in Range(sessions[ret[c].sid].queries) :
             sessions[ret[c].sid].query_positions[q] > 0

\* C27: within one run of collect_until_fulfilled started with the page
\* search_with_offset has just returned for the session, no other caller
\* paginating it, the candidates are submitted in session order without
\* gaps (the links submitted are those of the first items of
\* session.results, in that order) and no link is submitted twice.
C27_SubmittedInOrderOnce ==
    (collector.pc # "idle" /\ collector.session_id \in DOMAIN sessions) =>
       LET results == sessions[collector.session_id].results
           submitted == collector.submitted
       IN /\ Len(submitted) <= Len(results)
          /\ \A i \in 1..Len(submitted) : submitted[i] = results[i].link
          /\ \A i, j \in 1..Len(submitted) :
                i # j => submitted[i] # submitted[j]

\* C28: get_more_results called with count >= 1 returns an empty page only
\* if the session is exhausted, and the page then reports has_more = false,
\* whatever search_with_offset calls (with whatever offsets) came before.
C28_EmptyPageOnlyIfExhausted ==
    \A c \in Callers :
       (/\ calls[c].pc = "idle"
        /\ ret[c].kind = "page"
        /\ ret[c].op = "get_more_results"
        /\ ret[c].num >= 1
        /\ ret[c].results = << >>)
       => /\ sessions[ret[c].sid].is_exhausted
          /\ ~ret[c].has_more

C30_CursorCountsEachPageOnce ==
    [][\A c \in Callers :
         (/\ calls[c].pc = "fm_await"
          /\ calls'[c].pc = "fm_loop"
          /\ calls'[c].fetched >= 1)
         => sessions'[calls[c].sid].query_positions[calls[c].qlist[calls[c].qi]]
               = calls[c].start_index + calls'[c].fetched - 1
      ]_vars

====
